---- MODULE Spec2Model ----
(***************************************************************************)
(* GrammarMaster: the quiz session of the App component.                   *)
(*                                                                         *)
(* The state is the component's useState cells.  One action stands for one *)
(* event handler together with the render and the timer effect that follow *)
(* it.  Array positions are kept 0-based as in the source (currentIndex);  *)
(* a sequence element is read at position index + 1.                       *)
(***************************************************************************)
EXTENDS Integers, Sequences, FiniteSets

\* ------------------------------------------------------------------ bounds

\* slice(0, 20): the working set size, scaled down.
SampleSize == 3
\* The timer buttons offer 120, 300 and 600 seconds; the model offers every
\* duration from 1 to MaxDuration ticks.
MaxDuration == 2
\* Date.now() returns one of 1..MaxNow.
MaxNow == 1
\* Direct handler calls (SpecAPI) stop appending at this many answers.
MaxAnswers == 3
\* shuffleArray and the sample are tried on arrays of 0..MaxBank elements.
MaxBank == 5
\* The percentage is tried on its own for every total of 0..MaxTotal.
MaxTotal == 8

\* ------------------------------------------------------------- data types

\* null of the number | null cells (timerDuration, timeRemaining, startTime).
Null == -1
\* null of selectedOptionId.
NoOption == "null"
\* The filter sentinel ("all").
All == "all"

DifficultyValues == {"Beginner", "Intermediate", "Advanced"}

GrammarCategoryValues ==
  {"NonFinite", "RelativeClause", "AdverbialClause", "Conjunction",
   "NounClause", "Tense"}

OptionIds == {"a", "b"}

\* The question bank (./data/questions): a static ordered sequence of
\* Question records; only the fields the controller reads are kept.
questions ==
  << [id |-> 1, correctOptionId |-> "a", difficulty |-> "Beginner",
      category |-> "NonFinite"],
     [id |-> 2, correctOptionId |-> "b", difficulty |-> "Beginner",
      category |-> "Tense"],
     [id |-> 3, correctOptionId |-> "a", difficulty |-> "Intermediate",
      category |-> "Tense"],
     [id |-> 4, correctOptionId |-> "b", difficulty |-> "Intermediate",
      category |-> "NonFinite"] >>

TimerOptions == {Null} \cup (1..MaxDuration)

Min(a, b) == IF a < b THEN a ELSE b

\* ---------------------------------------------------------------- shuffle

\* [a[i], a[j]] = [a[j], a[i]] for 0-based i and j.
Swap(a, i, j) ==
  [a EXCEPT ![i + 1] = a[j + 1], ![j + 1] = a[i + 1]]

\* Variant: the choices of the naive shuffle, Math.random() * length.
RandomChoicesNaive(n) == [1..(n - 1) -> 0..(n - 1)]

\* The values Math.floor(Math.random() * (i + 1)) can take, for every i of
\* the loop: rnd[i] \in 0..i.
RandomChoices(n) ==
  {rnd \in [1..(n - 1) -> 0..(n - 1)] : \A i \in 1..(n - 1) : rnd[i] <= i}

RECURSIVE ShuffleLoop(_, _, _)
\* for (let i = shuffled.length - 1; i > 0; i--) swap(i, j)
ShuffleLoop(shuffled, i, rnd) ==
  IF i > 0
    THEN ShuffleLoop(Swap(shuffled, i, rnd[i]), i - 1, rnd)
    ELSE shuffled

shuffleArray(array, rnd) == ShuffleLoop(array, Len(array) - 1, rnd)

\* Variant: slice(1, end).
SliceSkippingFirst(array, start, end) ==
  SubSeq(array, start + 2, Min(end, Len(array)))

\* array.slice(start, end) for 0 <= start: the end is clamped to the length.
Slice(array, start, end) == SubSeq(array, start + 1, Min(end, Len(array)))

\* shuffleArray(array).slice(0, 20)
SampleOf(array, rnd) == Slice(shuffleArray(array, rnd), 0, SampleSize)

\* shuffleArray(questions).slice(0, 20)
Sample(rnd) == SampleOf(questions, rnd)

WorkingSets == {Sample(rnd) : rnd \in RandomChoices(Len(questions))}

\* ------------------------------------------------------------------ state

VARIABLES
  isStarted, currentIndex, selectedOptionId, isSubmitted, answers,
  isFinished, filterDifficulty, filterCategory, timerDuration,
  timeRemaining, startTime, allQuestions,
  lastEvent,
  shArray, shRnd, shShuffled, shSample,
  evScore, evTotal, evP, evText

\* The useState cells of the component.
state ==
  << isStarted, currentIndex, selectedOptionId, isSubmitted, answers,
     isFinished, filterDifficulty, filterCategory, timerDuration,
     timeRemaining, startTime, allQuestions >>

\* One call of shuffleArray(array).slice(0, 20) on its own: the array, the
\* random choices, the shuffled copy and the slice.  The component's
\* handlers neither read nor write these.
shuffleCall == << shArray, shRnd, shShuffled, shSample >>

\* One computation of the Finished view's evaluation on its own: a score
\* and a total (Null when the percentage is given directly), the
\* percentage and the text of getDetailedEvaluation.  The component's
\* handlers neither read nor write these.
evaluationCall == << evScore, evTotal, evP, evText >>

\* lastEvent records which handler ran last; no handler reads it.
vars == << state, lastEvent, shuffleCall, evaluationCall >>

\* ---------------------------------------------------------- derived values

Matches(q, fd, fc) ==
  LET matchDifficulty == fd = All \/ q.difficulty = fd
      matchCategory == fc = All \/ q.category = fc
  IN  matchDifficulty /\ matchCategory

Filter(qs, fd, fc) == SelectSeq(qs, LAMBDA q : Matches(q, fd, fc))

filteredQuestions == Filter(allQuestions, filterDifficulty, filterCategory)

\* filteredQuestions[currentIndex] is undefined outside the array.
HasCurrentQuestion == currentIndex < Len(filteredQuestions)

currentQuestion == filteredQuestions[currentIndex + 1]

RECURSIVE CountCorrect(_)
CountCorrect(as) ==
  IF as = << >> THEN 0
  ELSE (IF Head(as).isCorrect THEN 1 ELSE 0) + CountCorrect(Tail(as))

score == CountCorrect(answers)

total == Len(filteredQuestions)

\* The quotient cut off instead of rounded.
PercentageTruncated(s, t) ==
  IF t > 0 THEN (100 * s) \div t ELSE 0

\* Math.round(x) for x = 100 * s / t >= 0: floor(x + 1/2).
Percentage(s, t) ==
  IF t > 0 THEN (200 * s + t) \div (2 * t) ELSE 0

percentage == Percentage(score, total)

\* The percentages of a score that does not exceed its total.
Percentages == 0..100

\* The tiers with the lower bounds left out of them.
getDetailedEvaluationExclusive(p) ==
  IF p = 100 THEN "outstanding"
  ELSE IF p > 85 THEN "excellent"
  ELSE IF p > 70 THEN "good"
  ELSE IF p > 50 THEN "fair"
  ELSE "poor"

\* The five texts of the source, each named by a key of its own.
getDetailedEvaluation(p) ==
  IF p = 100 THEN "outstanding"
  ELSE IF p >= 85 THEN "excellent"
  ELSE IF p >= 70 THEN "good"
  ELSE IF p >= 50 THEN "fair"
  ELSE "poor"

\* The text the Finished view shows.
evaluation == getDetailedEvaluation(percentage)

\* The view the component returns.
View ==
  IF ~isStarted THEN "Home"
  ELSE IF isFinished THEN "Finished"
  ELSE IF Len(filteredQuestions) = 0 THEN "Empty"
  ELSE "Question"

\* ------------------------------------------------------------ timer effect

\* Variant: the interval is not cleared when the session finishes.
IntervalRunningWhileFinished(started, finished, remaining) ==
  started /\ remaining # Null /\ remaining > 0

\* The interval of the effect exists exactly in these states.
IntervalRunning(started, finished, remaining) ==
  started /\ ~finished /\ remaining # Null /\ remaining > 0

\* Variant: the effect without its else-if branch.
TimerEffectNoExpiry(started, finished, remaining) == finished

\* The effect after a render: isFinished as the effect leaves it.
TimerEffect(started, finished, remaining) ==
  IF IntervalRunning(started, finished, remaining) THEN finished
  ELSE IF remaining = 0 /\ ~finished THEN TRUE
  ELSE finished

\* The render after a handler that left isFinished at `finished`; to be used
\* after isStarted' and timeRemaining' are set.
Render(finished) ==
  isFinished' = TimerEffect(isStarted', finished, timeRemaining')

\* ------------------------------------------------------------------- Init

Init ==
  /\ isStarted = FALSE
  /\ currentIndex = 0
  /\ selectedOptionId = NoOption
  /\ isSubmitted = FALSE
  /\ answers = << >>
  /\ isFinished = FALSE
  /\ filterDifficulty = All
  /\ filterCategory = All
  /\ timerDuration = Null
  /\ timeRemaining = Null
  /\ startTime = Null
  /\ allQuestions \in WorkingSets
  /\ lastEvent = "init"
  /\ shArray = << >>
  /\ shRnd = << >>
  /\ shShuffled = << >>
  /\ shSample = << >>
  /\ evScore = 0
  /\ evTotal = 0
  /\ evP = Percentage(0, 0)
  /\ evText = getDetailedEvaluation(evP)

\* --------------------------------------------------------------- handlers

\* Variant: start() that does not initialise the remaining time.
handleStartNoTimer(now) ==
  IF Len(filteredQuestions) = 0 THEN UNCHANGED state
  ELSE
    /\ isStarted' = TRUE
    /\ startTime' = now
    /\ timeRemaining' = timeRemaining
    /\ Render(isFinished)
    /\ UNCHANGED << currentIndex, selectedOptionId, isSubmitted, answers,
                    filterDifficulty, filterCategory, timerDuration,
                    allQuestions >>

\* Variant: start() without the empty-set guard.
handleStartUnguarded(now) ==
  /\ isStarted' = TRUE
  /\ startTime' = now
  /\ timeRemaining' =
       IF timerDuration # Null /\ timerDuration # 0
         THEN timerDuration ELSE timeRemaining
  /\ Render(isFinished)
  /\ UNCHANGED << currentIndex, selectedOptionId, isSubmitted, answers,
                  filterDifficulty, filterCategory, timerDuration,
                  allQuestions >>

handleStart(now) ==
  IF Len(filteredQuestions) = 0 THEN UNCHANGED state
  ELSE
    /\ isStarted' = TRUE
    /\ startTime' = now
    /\ timeRemaining' =
         IF timerDuration # Null /\ timerDuration # 0
           THEN timerDuration ELSE timeRemaining
    /\ Render(isFinished)
    /\ UNCHANGED << currentIndex, selectedOptionId, isSubmitted, answers,
                    filterDifficulty, filterCategory, timerDuration,
                    allQuestions >>

\* Variant: selectOption without the submitted guard.
handleOptionClickUnguarded(optionId) ==
  /\ selectedOptionId' = optionId
  /\ UNCHANGED << isStarted, timeRemaining >>
  /\ Render(isFinished)
  /\ UNCHANGED << currentIndex, isSubmitted, answers, filterDifficulty,
                  filterCategory, timerDuration, startTime, allQuestions >>

handleOptionClick(optionId) ==
  IF isSubmitted THEN UNCHANGED state
  ELSE
    /\ selectedOptionId' = optionId
    /\ UNCHANGED << isStarted, timeRemaining >>
    /\ Render(isFinished)
    /\ UNCHANGED << currentIndex, isSubmitted, answers, filterDifficulty,
                    filterCategory, timerDuration, startTime, allQuestions >>

\* Variant: isCorrect from the selection being set, not from the comparison.
NewAnswerTruthy ==
  [questionId |-> currentQuestion.id,
   selectedOptionId |-> selectedOptionId,
   isCorrect |-> (selectedOptionId # NoOption)]

NewAnswer ==
  [questionId |-> currentQuestion.id,
   selectedOptionId |-> selectedOptionId,
   isCorrect |-> (selectedOptionId = currentQuestion.correctOptionId)]

\* Variant: submit() that does not test the selection.
handleSubmitNoSelectionGuard ==
  IF ~HasCurrentQuestion THEN UNCHANGED state
  ELSE
    /\ answers' =
         Append(answers,
                [questionId |-> currentQuestion.id,
                 selectedOptionId |-> selectedOptionId,
                 isCorrect |->
                   (selectedOptionId = currentQuestion.correctOptionId)])
    /\ isSubmitted' = TRUE
    /\ UNCHANGED << isStarted, timeRemaining >>
    /\ Render(isFinished)
    /\ UNCHANGED << currentIndex, selectedOptionId, filterDifficulty,
                    filterCategory, timerDuration, startTime, allQuestions >>

handleSubmit ==
  IF selectedOptionId = NoOption \/ ~HasCurrentQuestion THEN UNCHANGED state
  ELSE
    /\ answers' = Append(answers, NewAnswer)
    /\ isSubmitted' = TRUE
    /\ UNCHANGED << isStarted, timeRemaining >>
    /\ Render(isFinished)
    /\ UNCHANGED << currentIndex, selectedOptionId, filterDifficulty,
                    filterCategory, timerDuration, startTime, allQuestions >>

\* Variant: next() comparing with <= instead of <.
handleNextOffByOne ==
  /\ IF currentIndex <= Len(filteredQuestions) - 1
       THEN /\ currentIndex' = currentIndex + 1
            /\ selectedOptionId' = NoOption
            /\ isSubmitted' = FALSE
            /\ UNCHANGED << isStarted, timeRemaining >>
            /\ Render(isFinished)
       ELSE /\ UNCHANGED << isStarted, timeRemaining >>
            /\ Render(TRUE)
            /\ UNCHANGED << currentIndex, selectedOptionId, isSubmitted >>
  /\ UNCHANGED << answers, filterDifficulty, filterCategory, timerDuration,
                  startTime, allQuestions >>

handleNext ==
  /\ IF currentIndex < Len(filteredQuestions) - 1
       THEN /\ currentIndex' = currentIndex + 1
            /\ selectedOptionId' = NoOption
            /\ isSubmitted' = FALSE
            /\ UNCHANGED << isStarted, timeRemaining >>
            /\ Render(isFinished)
       ELSE /\ UNCHANGED << isStarted, timeRemaining >>
            /\ Render(TRUE)
            /\ UNCHANGED << currentIndex, selectedOptionId, isSubmitted >>
  /\ UNCHANGED << answers, filterDifficulty, filterCategory, timerDuration,
                  startTime, allQuestions >>

\* Variant: restart() without setAnswers([]).
\* Variant: restart putting both filters back to "all".
handleRestartResetFilters(rnd) ==
  /\ allQuestions' = Sample(rnd)
  /\ currentIndex' = 0
  /\ selectedOptionId' = NoOption
  /\ isSubmitted' = FALSE
  /\ answers' = << >>
  /\ isStarted' = FALSE
  /\ timeRemaining' = Null
  /\ filterDifficulty' = All
  /\ filterCategory' = All
  /\ Render(FALSE)
  /\ UNCHANGED << timerDuration, startTime >>

\* Variant: restart leaving the remaining time as it was.
handleRestartKeepRemaining(rnd) ==
  /\ allQuestions' = Sample(rnd)
  /\ currentIndex' = 0
  /\ selectedOptionId' = NoOption
  /\ isSubmitted' = FALSE
  /\ answers' = << >>
  /\ isStarted' = FALSE
  /\ UNCHANGED timeRemaining
  /\ Render(FALSE)
  /\ UNCHANGED << filterDifficulty, filterCategory, timerDuration, startTime >>

handleRestartKeepAnswers(rnd) ==
  /\ allQuestions' = Sample(rnd)
  /\ currentIndex' = 0
  /\ selectedOptionId' = NoOption
  /\ isSubmitted' = FALSE
  /\ isStarted' = FALSE
  /\ timeRemaining' = Null
  /\ Render(FALSE)
  /\ UNCHANGED << answers, filterDifficulty, filterCategory, timerDuration,
                  startTime >>

handleRestart(rnd) ==
  /\ allQuestions' = Sample(rnd)
  /\ currentIndex' = 0
  /\ selectedOptionId' = NoOption
  /\ isSubmitted' = FALSE
  /\ answers' = << >>
  /\ isStarted' = FALSE
  /\ timeRemaining' = Null
  /\ Render(FALSE)
  /\ UNCHANGED << filterDifficulty, filterCategory, timerDuration, startTime >>

\* Home view: onClick of a difficulty button.
setFilterDifficulty(d) ==
  /\ filterDifficulty' = d
  /\ UNCHANGED << isStarted, timeRemaining >>
  /\ Render(isFinished)
  /\ UNCHANGED << currentIndex, selectedOptionId, isSubmitted, answers,
                  filterCategory, timerDuration, startTime, allQuestions >>

\* Home view: onClick of a timer button.
setTimerDuration(t) ==
  /\ timerDuration' = t
  /\ UNCHANGED << isStarted, timeRemaining >>
  /\ Render(isFinished)
  /\ UNCHANGED << currentIndex, selectedOptionId, isSubmitted, answers,
                  filterDifficulty, filterCategory, startTime, allQuestions >>

\* Variant: the difficulty select without setCurrentIndex(0).
onChangeDifficultyKeepIndex(d) ==
  /\ filterDifficulty' = d
  /\ answers' = << >>
  /\ UNCHANGED << isStarted, timeRemaining >>
  /\ Render(isFinished)
  /\ UNCHANGED << currentIndex, selectedOptionId, isSubmitted,
                  filterCategory, timerDuration, startTime, allQuestions >>

\* Variant: the difficulty select restarting the countdown.
onChangeDifficultyResetTimer(d) ==
  /\ filterDifficulty' = d
  /\ currentIndex' = 0
  /\ answers' = << >>
  /\ timeRemaining' = timerDuration
  /\ UNCHANGED isStarted
  /\ Render(isFinished)
  /\ UNCHANGED << selectedOptionId, isSubmitted, filterCategory,
                  timerDuration, startTime, allQuestions >>

\* Question view: onChange of the difficulty select.
onChangeDifficulty(d) ==
  /\ filterDifficulty' = d
  /\ currentIndex' = 0
  /\ answers' = << >>
  /\ UNCHANGED << isStarted, timeRemaining >>
  /\ Render(isFinished)
  /\ UNCHANGED << selectedOptionId, isSubmitted, filterCategory,
                  timerDuration, startTime, allQuestions >>

\* Variant: the category select without setAnswers([]).
onChangeCategoryKeepAnswers(c) ==
  /\ filterCategory' = c
  /\ currentIndex' = 0
  /\ UNCHANGED << isStarted, timeRemaining >>
  /\ Render(isFinished)
  /\ UNCHANGED << answers, selectedOptionId, isSubmitted, filterDifficulty,
                  timerDuration, startTime, allQuestions >>

\* Variant: the category select leaving the index where it was.
onChangeCategoryKeepIndex(c) ==
  /\ filterCategory' = c
  /\ answers' = << >>
  /\ UNCHANGED << isStarted, timeRemaining >>
  /\ Render(isFinished)
  /\ UNCHANGED << currentIndex, selectedOptionId, isSubmitted,
                  filterDifficulty, timerDuration, startTime, allQuestions >>

\* Question view: onChange of the category select.
onChangeCategory(c) ==
  /\ filterCategory' = c
  /\ currentIndex' = 0
  /\ answers' = << >>
  /\ UNCHANGED << isStarted, timeRemaining >>
  /\ Render(isFinished)
  /\ UNCHANGED << selectedOptionId, isSubmitted, filterDifficulty,
                  timerDuration, startTime, allQuestions >>

\* Variant: the reset button drawing a new sample from the bank.
resetFiltersResample ==
  /\ filterDifficulty' = All
  /\ filterCategory' = All
  /\ \E rnd \in RandomChoices(Len(questions)) : allQuestions' = Sample(rnd)
  /\ UNCHANGED << isStarted, timeRemaining >>
  /\ Render(isFinished)
  /\ UNCHANGED << currentIndex, selectedOptionId, isSubmitted, answers,
                  timerDuration, startTime >>

\* Empty view: onClick of the reset button.
resetFilters ==
  /\ filterDifficulty' = All
  /\ filterCategory' = All
  /\ UNCHANGED << isStarted, timeRemaining >>
  /\ Render(isFinished)
  /\ UNCHANGED << currentIndex, selectedOptionId, isSubmitted, answers,
                  timerDuration, startTime, allQuestions >>

\* The interval callback: setTimeRemaining(prev => prev !== null ? prev - 1 : null)
intervalCallback ==
  /\ timeRemaining' =
       IF timeRemaining # Null THEN timeRemaining - 1 ELSE Null
  /\ UNCHANGED isStarted
  /\ Render(isFinished)
  /\ UNCHANGED << currentIndex, selectedOptionId, isSubmitted, answers,
                  filterDifficulty, filterCategory, timerDuration, startTime,
                  allQuestions >>

\* ------------------------------------------- the events the views can raise

Events ==
  {"init", "start", "homeDifficulty", "homeTimer", "option", "submit",
   "next", "difficulty", "category", "reset", "restart", "tick", "shuffle",
   "percentage", "evaluation"}

\* The start button is disabled while the filtered set is empty.
ClickStart ==
  /\ lastEvent' = "start"
  /\ UNCHANGED << shuffleCall, evaluationCall >>
  /\ View = "Home"
  /\ Len(filteredQuestions) # 0
  /\ \E now \in 1..MaxNow : handleStart(now)

ClickHomeDifficulty ==
  /\ lastEvent' = "homeDifficulty"
  /\ UNCHANGED << shuffleCall, evaluationCall >>
  /\ View = "Home"
  /\ \E d \in {All} \cup DifficultyValues : setFilterDifficulty(d)

ClickHomeTimer ==
  /\ lastEvent' = "homeTimer"
  /\ UNCHANGED << shuffleCall, evaluationCall >>
  /\ View = "Home"
  /\ \E t \in TimerOptions : setTimerDuration(t)

\* The option buttons of the current question are disabled once submitted.
ClickOption ==
  /\ lastEvent' = "option"
  /\ UNCHANGED << shuffleCall, evaluationCall >>
  /\ View = "Question"
  /\ ~isSubmitted
  /\ \E o \in OptionIds : handleOptionClick(o)

\* The submit button is rendered while not submitted, disabled without a
\* selection.
ClickSubmit ==
  /\ lastEvent' = "submit"
  /\ UNCHANGED << shuffleCall, evaluationCall >>
  /\ View = "Question"
  /\ ~isSubmitted
  /\ selectedOptionId # NoOption
  /\ handleSubmit

\* The next button replaces the submit button once submitted.
ClickNext ==
  /\ lastEvent' = "next"
  /\ UNCHANGED << shuffleCall, evaluationCall >>
  /\ View = "Question"
  /\ isSubmitted
  /\ handleNext

\* A select raises onChange only when another value is chosen.
SelectDifficulty ==
  /\ lastEvent' = "difficulty"
  /\ UNCHANGED << shuffleCall, evaluationCall >>
  /\ View = "Question"
  /\ \E d \in ({All} \cup DifficultyValues) \ {filterDifficulty} :
       onChangeDifficulty(d)

SelectCategory ==
  /\ lastEvent' = "category"
  /\ UNCHANGED << shuffleCall, evaluationCall >>
  /\ View = "Question"
  /\ \E c \in ({All} \cup GrammarCategoryValues) \ {filterCategory} :
       onChangeCategory(c)

ClickResetFilters ==
  /\ lastEvent' = "reset"
  /\ UNCHANGED << shuffleCall, evaluationCall >>
  /\ View = "Empty"
  /\ resetFilters

ClickRestart ==
  /\ lastEvent' = "restart"
  /\ UNCHANGED << shuffleCall, evaluationCall >>
  /\ View = "Finished"
  /\ \E rnd \in RandomChoices(Len(questions)) : handleRestart(rnd)

Tick ==
  /\ lastEvent' = "tick"
  /\ UNCHANGED << shuffleCall, evaluationCall >>
  /\ IntervalRunning(isStarted, isFinished, timeRemaining)
  /\ intervalCallback

Next ==
  \/ ClickStart
  \/ ClickHomeDifficulty
  \/ ClickHomeTimer
  \/ ClickOption
  \/ ClickSubmit
  \/ ClickNext
  \/ SelectDifficulty
  \/ SelectCategory
  \/ ClickResetFilters
  \/ ClickRestart
  \/ Tick

Spec == Init /\ [][Next]_vars

\* Ticks keep coming while the interval exists.
FairSpec == Spec /\ WF_vars(Tick)

\* ------------------------------------ the handlers called without the gating

\* The transitions the error-handling design declares guarded (start, select,
\* submit) called by a presentation layer that neither disables nor hides a
\* control: start() in Home whatever the filtered set, selectOption() on the
\* question view submitted or not, submit() in a started unfinished session
\* with or without a selection, a current question or an earlier submit.

CallStart ==
  /\ lastEvent' = "start"
  /\ UNCHANGED << shuffleCall, evaluationCall >>
  /\ View = "Home"
  /\ \E now \in 1..MaxNow : handleStart(now)

CallOptionClick ==
  /\ lastEvent' = "option"
  /\ UNCHANGED << shuffleCall, evaluationCall >>
  /\ View = "Question"
  /\ \E o \in OptionIds : handleOptionClick(o)

CallSubmit ==
  /\ lastEvent' = "submit"
  /\ UNCHANGED << shuffleCall, evaluationCall >>
  /\ View \in {"Question", "Empty"}
  /\ Len(answers) < MaxAnswers
  /\ handleSubmit

NextAPI ==
  \/ CallStart
  \/ ClickHomeDifficulty
  \/ ClickHomeTimer
  \/ CallOptionClick
  \/ CallSubmit
  \/ ClickNext
  \/ SelectDifficulty
  \/ SelectCategory
  \/ ClickResetFilters
  \/ ClickRestart
  \/ Tick

SpecAPI == Init /\ [][NextAPI]_vars

\* ----------------------------------------------- the shuffle on its own

\* shuffleArray(array).slice(0, 20) called on the array 1, 2, ..., n with
\* every sequence of random choices.
CallShuffle ==
  /\ lastEvent' = "shuffle"
  /\ \E n \in 0..MaxBank :
       \E rnd \in RandomChoices(n) :
         LET array == [i \in 1..n |-> i]
         IN  /\ shArray' = array
             /\ shRnd' = rnd
             /\ shShuffled' = shuffleArray(array, rnd)
             /\ shSample' = SampleOf(array, rnd)
  /\ UNCHANGED << state, evaluationCall >>

NextShuffle == CallShuffle

\* The component stays as loaded, with the sample in bank order.
InitShuffle == Init /\ allQuestions = Slice(questions, 0, SampleSize)

SpecShuffle == InitShuffle /\ [][NextShuffle]_vars

\* ------------------------------------------- the evaluation on its own

\* The Finished view's computation for any score out of any total:
\* percentage, then getDetailedEvaluation(percentage).
CallPercentage ==
  /\ lastEvent' = "percentage"
  /\ \E t \in 0..MaxTotal :
       \E s \in 0..t :
         /\ evScore' = s
         /\ evTotal' = t
         /\ evP' = Percentage(s, t)
         /\ evText' = getDetailedEvaluation(Percentage(s, t))
  /\ UNCHANGED << state, shuffleCall >>

\* getDetailedEvaluation(p) called with any percentage.
CallEvaluation ==
  /\ lastEvent' = "evaluation"
  /\ \E p \in Percentages :
       /\ evScore' = Null
       /\ evTotal' = Null
       /\ evP' = p
       /\ evText' = getDetailedEvaluation(p)
  /\ UNCHANGED << state, shuffleCall >>

NextEvaluation ==
  \/ CallPercentage
  \/ CallEvaluation

SpecEvaluation == InitShuffle /\ [][NextEvaluation]_vars

TypeOK ==
  /\ isStarted \in BOOLEAN
  /\ isFinished \in BOOLEAN
  /\ isSubmitted \in BOOLEAN
  /\ currentIndex \in 0..SampleSize
  /\ selectedOptionId \in OptionIds \cup {NoOption}
  /\ filterDifficulty \in {All} \cup DifficultyValues
  /\ filterCategory \in {All} \cup GrammarCategoryValues
  /\ timerDuration \in TimerOptions
  /\ timeRemaining \in {Null} \cup (0..MaxDuration)
  /\ startTime \in {Null} \cup (1..MaxNow)
  /\ allQuestions \in WorkingSets
  /\ lastEvent \in Events
  /\ Len(shArray) \in 0..MaxBank
  /\ Len(shShuffled) = Len(shArray)
  /\ Len(shSample) \in 0..SampleSize
  /\ evScore \in {Null} \cup (0..MaxTotal)
  /\ evTotal \in {Null} \cup (0..MaxTotal)
  /\ evP \in Percentages
  /\ evText \in {getDetailedEvaluation(p) : p \in Percentages}

\* ----------------------------------------------------------------- claims

Home == ~isStarted

InProgress == isStarted /\ ~isFinished

Finished == isStarted /\ isFinished

Last(seq) == seq[Len(seq)]

\* C1: in every reachable state score is the number of answers whose
\* isCorrect is true, and score <= total, the size of the filtered set.
C1_ScoreInvariant ==
  /\ score = Cardinality({i \in 1..Len(answers) : answers[i].isCorrect})
  /\ score <= total

\* A whole filtered set of three answered correctly, after a filter change.
C1_Witness ==
  /\ lastEvent = "submit"
  /\ filterDifficulty # All \/ filterCategory # All
  /\ score = total
  /\ score >= 2

\* C2: the session only moves Home -> InProgress -> Finished -> Home: Home is
\* left only by a start() on a non-empty filtered set; Finished is entered
\* only by next() on the last index or by the tick that brings the remaining
\* time to 0; the only step out of Finished is restart(), which leads to
\* Home; InProgress never steps to Home.
C2_StateMachine ==
  /\ [](isFinished => isStarted)
  /\ [][ /\ (Home /\ ~Home') =>
             /\ lastEvent' = "start"
             /\ Len(filteredQuestions) > 0
             /\ InProgress'
         /\ InProgress => ~Home'
         /\ (InProgress /\ Finished') =>
             \/ /\ lastEvent' = "next"
                /\ currentIndex = Len(filteredQuestions) - 1
             \/ /\ lastEvent' = "tick"
                /\ timeRemaining' = 0
         /\ Finished => (lastEvent' = "restart" /\ Home')
       ]_vars

\* Home again after a whole session.
C2_Witness ==
  /\ lastEvent = "restart"
  /\ Home
  /\ startTime # Null

\* C3: the tick that brings the remaining time to 0 finishes the session
\* whatever the progress of the current question, and leaves answers as they
\* were: a pending selection is not recorded.
C3_TimerExpiry ==
  /\ [](timeRemaining = 0 => Finished)
  /\ [][ (lastEvent' = "tick" /\ timeRemaining' = 0) =>
           (Finished' /\ answers' = answers) ]_vars

\* The timer ran out on the second question, selected but not submitted.
C3_Witness ==
  /\ lastEvent = "tick"
  /\ Finished
  /\ timeRemaining = 0
  /\ currentIndex = 1
  /\ selectedOptionId # NoOption
  /\ ~isSubmitted
  /\ Len(answers) = 1

\* C4: a session started with a timer duration D begins with remaining time
\* D; while it is in progress the remaining time stays in 1..D and each tick
\* takes exactly 1 off it; and with ticks fair the session becomes Finished,
\* whatever user events are interleaved.
C4_TimedSessionFinishes ==
  /\ [][ (Home /\ ~Home' /\ timerDuration # Null) =>
           timeRemaining' = timerDuration ]_vars
  /\ []((InProgress /\ timerDuration # Null) =>
          timeRemaining \in 1..timerDuration)
  /\ [][ lastEvent' = "tick" => timeRemaining' = timeRemaining - 1 ]_vars
  /\ ((isStarted /\ timerDuration # Null) ~> Finished)

\* The timer ran out while the filtered set was empty.
C4_Witness ==
  /\ Finished
  /\ timeRemaining = 0
  /\ timerDuration = MaxDuration
  /\ Len(filteredQuestions) = 0

\* C5: submit() with a pending selection s on the unsubmitted current
\* question q appends the one answer {q.id, s, s = q.correctOptionId} and
\* sets submitted; index, selection, filters, working set and remaining time
\* are unchanged.
C5_SubmitAppends ==
  [][ ( /\ lastEvent' = "submit"
        /\ selectedOptionId # NoOption
        /\ ~isSubmitted
        /\ HasCurrentQuestion ) =>
      ( /\ Len(answers') = Len(answers) + 1
        /\ SubSeq(answers', 1, Len(answers)) = answers
        /\ Last(answers').questionId = filteredQuestions[currentIndex + 1].id
        /\ Last(answers').selectedOptionId = selectedOptionId
        /\ Last(answers').isCorrect =
             (selectedOptionId =
                filteredQuestions[currentIndex + 1].correctOptionId)
        /\ isSubmitted'
        /\ UNCHANGED << currentIndex, selectedOptionId, filterDifficulty,
                        filterCategory, allQuestions, timeRemaining >> )
    ]_vars

\* Scenario B: "b" submitted on question 1, whose correct option is "a".
C5_Witness ==
  /\ lastEvent = "submit"
  /\ isSubmitted
  /\ answers # << >>
  /\ Last(answers) =
       [questionId |-> 1, selectedOptionId |-> "b", isCorrect |-> FALSE]

C7_SubmitGuard ==
  [][ ( /\ lastEvent' = "submit"
        /\ selectedOptionId = NoOption \/ ~HasCurrentQuestion ) =>
      UNCHANGED state ]_vars

\* submit() was called on a question with nothing selected.
C7_Witness ==
  /\ lastEvent = "submit"
  /\ View = "Question"
  /\ selectedOptionId = NoOption
  /\ ~isSubmitted

\* C8: start() on an empty filtered set changes no state variable, so the
\* session stays in Home, and no session is in progress as the result of a
\* start() on an empty filtered set.
C8_StartGuard ==
  /\ [][ (lastEvent' = "start" /\ Len(filteredQuestions) = 0) =>
           UNCHANGED state ]_vars
  /\ []((lastEvent = "start" /\ isStarted) => Len(filteredQuestions) > 0)

\* start() was called in Home on an empty filtered set.
C8_Witness ==
  /\ lastEvent = "start"
  /\ Home
  /\ Len(filteredQuestions) = 0

\* C9: next() on a submitted question below the last index moves to index + 1
\* with the selection cleared and submitted false; on the last index it sets
\* Finished and keeps the index; answers is unchanged in both cases.
C9_NextAdvancesOrFinishes ==
  [][ (lastEvent' = "next" /\ isSubmitted) =>
      ( /\ answers' = answers
        /\ IF currentIndex < Len(filteredQuestions) - 1
             THEN /\ currentIndex' = currentIndex + 1
                  /\ selectedOptionId' = NoOption
                  /\ ~isSubmitted'
                  /\ ~isFinished'
             ELSE /\ isFinished'
                  /\ currentIndex' = currentIndex )
    ]_vars

\* next() finished a session on its last index, reached by earlier next().
C9_Witness ==
  /\ lastEvent = "next"
  /\ Finished
  /\ currentIndex = Len(filteredQuestions) - 1
  /\ currentIndex >= 1

\* C10: in a started, unfinished session with a non-empty filtered set,
\* answers has currentIndex entries while the current question is
\* unsubmitted and currentIndex + 1 once it is submitted.
C10_OneAnswerPerIndex ==
  (InProgress /\ Len(filteredQuestions) > 0) =>
    Len(answers) = (IF isSubmitted THEN currentIndex + 1 ELSE currentIndex)

\* C11 as claimed: in every reachable state 0 <= currentIndex <
\* filteredQuestions.length, also when the filtered set is empty.
C11_IndexInRange ==
  0 <= currentIndex /\ currentIndex < Len(filteredQuestions)

\* C11 as amended: currentIndex is never negative, it is below
\* filteredQuestions.length whenever the filtered set is non-empty, and it is
\* 0 whenever the filtered set is empty.
C11_IndexInRangeOrEmpty ==
  /\ 0 <= currentIndex
  /\ Len(filteredQuestions) > 0 => currentIndex < Len(filteredQuestions)
  /\ Len(filteredQuestions) = 0 => currentIndex = 0

\* A filter change on the last of three questions left a set of one.
C11_Witness ==
  /\ lastEvent \in {"difficulty", "category"}
  /\ InProgress
  /\ isSubmitted
  /\ Len(filteredQuestions) = 1
  /\ currentIndex = 0

\* C12: restart() leads to Home with index 0, no answers, no selection, not
\* submitted, not started, not finished, no remaining time, and a working
\* set that is one of the samples of the bank.
C12_RestartResets ==
  [][ lastEvent' = "restart" =>
      ( /\ Finished
        /\ Home'
        /\ currentIndex' = 0
        /\ answers' = << >>
        /\ selectedOptionId' = NoOption
        /\ ~isSubmitted'
        /\ ~isStarted'
        /\ ~isFinished'
        /\ timeRemaining' = Null
        /\ allQuestions' \in WorkingSets )
    ]_vars

\* Home after a restart that drew a sample without question 1.
C12_Witness ==
  /\ lastEvent = "restart"
  /\ Home
  /\ answers = << >>
  /\ \A i \in 1..Len(allQuestions) : allQuestions[i].id # 1

\* The states with an empty filtered set that some sequence of the controls
\* on screen leads out of: the Empty view has the reset button; Home has the
\* difficulty buttons only; the Finished view has restart only, which draws
\* a sample and keeps both filters.
CanBecomeNonEmpty ==
  \/ View = "Empty"
  \/ /\ View = "Home"
     /\ \E d \in {All} \cup DifficultyValues :
          Len(Filter(allQuestions, d, filterCategory)) > 0
  \/ /\ View = "Finished"
     /\ \E w \in WorkingSets, d \in {All} \cup DifficultyValues :
          Len(Filter(w, d, filterCategory)) > 0

\* C13: no reachable state with an empty filtered set lacks a way to make it
\* non-empty again.
C13_EmptyRecoverable ==
  Len(filteredQuestions) = 0 => CanBecomeNonEmpty

\* C14: the remaining time changes only by a tick taken while the session is
\* started, not finished and the remaining time is set and above 0, by
\* start() and by restart(); while Finished it is frozen, and in Home it is
\* null, so no tick acts on a finished or restarted session.
C14_NoStaleTick ==
  /\ [](Home => timeRemaining = Null)
  /\ [][ /\ lastEvent' = "tick" =>
             (InProgress /\ timeRemaining # Null /\ timeRemaining > 0)
         /\ timeRemaining' # timeRemaining =>
             lastEvent' \in {"tick", "start", "restart"}
         /\ Finished => (lastEvent' = "restart" /\ timeRemaining' = Null)
       ]_vars

\* Finished by next() with time left on the clock.
C14_Witness ==
  /\ lastEvent = "next"
  /\ Finished
  /\ timeRemaining # Null
  /\ timeRemaining > 0

\* C15: a change of the difficulty or category select in a session in
\* progress sets the index to 0 and empties answers, and leaves the working
\* set, the started and finished flags, the timer duration and the remaining
\* time as they were.
C15_FilterChangeClearsProgress ==
  [][ lastEvent' \in {"difficulty", "category"} =>
      ( /\ InProgress
        /\ filterDifficulty' # filterDifficulty
             \/ filterCategory' # filterCategory
        /\ currentIndex' = 0
        /\ answers' = << >>
        /\ UNCHANGED << allQuestions, isStarted, isFinished, timerDuration,
                        timeRemaining >> )
    ]_vars

\* A filter change after a submit, with the countdown half way.
C15_Witness ==
  /\ lastEvent \in {"difficulty", "category"}
  /\ InProgress
  /\ isSubmitted
  /\ answers = << >>
  /\ timerDuration = MaxDuration
  /\ timeRemaining = 1

\* Supports C13: a state with an empty filtered set that CanBecomeNonEmpty
\* rules out has only such states after it.
C13_TrappedForGood ==
  [][ (Len(filteredQuestions) = 0 /\ ~CanBecomeNonEmpty) =>
      (Len(filteredQuestions') = 0 /\ ~CanBecomeNonEmpty') ]_vars

\* C16: whenever the current question changes, the selection is null and
\* submitted is false for the new current question.
C16_SelectionClearedPerQuestion ==
  [][ ( /\ HasCurrentQuestion'
        /\ ~HasCurrentQuestion \/ currentQuestion' # currentQuestion ) =>
      (selectedOptionId' = NoOption /\ ~isSubmitted') ]_vars

\* C17: answers changes only by submit() appending one entry at its end or
\* by being emptied as a whole by an in-session filter change or restart();
\* selectOption, next(), start() and ticks leave it alone, and selectOption
\* on a submitted question changes nothing at all.
C17_AnswersAppendOnly ==
  [][ /\ answers' # answers =>
           \/ /\ lastEvent' = "submit"
              /\ Len(answers') = Len(answers) + 1
              /\ SubSeq(answers', 1, Len(answers)) = answers
           \/ /\ lastEvent' \in {"difficulty", "category", "restart"}
              /\ answers' = << >>
      /\ lastEvent' \in {"option", "next", "start", "tick"} =>
           answers' = answers
      /\ (lastEvent' = "option" /\ isSubmitted) => UNCHANGED state
    ]_vars

\* selectOption was called on a submitted question.
C17_Witness ==
  /\ lastEvent = "option"
  /\ isSubmitted
  /\ Len(answers) >= 2

\* The positions of the working set whose question passes both filters.
MatchingPositions ==
  {i \in 1..Len(allQuestions) :
     /\ filterDifficulty = All
          \/ allQuestions[i].difficulty = filterDifficulty
     /\ filterCategory = All
          \/ allQuestions[i].category = filterCategory}

\* C18: only restart() changes the working set; the filtered set is exactly
\* the questions of the working set that pass both filters, in working-set
\* order, so with both filters at "all" it is the working set itself; and
\* every question of the working set is a question of the bank.
C18_WorkingSetFixed ==
  /\ [][ allQuestions' # allQuestions => lastEvent' = "restart" ]_vars
  /\ [](/\ Len(filteredQuestions) = Cardinality(MatchingPositions)
        /\ \A k \in 1..Len(filteredQuestions) :
             filteredQuestions[k] =
               allQuestions[CHOOSE i \in MatchingPositions :
                  Cardinality({j \in MatchingPositions : j < i}) = k - 1]
        /\ (filterDifficulty = All /\ filterCategory = All) =>
             filteredQuestions = allQuestions
        /\ \A i \in 1..Len(allQuestions) :
             \E b \in 1..Len(questions) : allQuestions[i] = questions[b])

\* The reset button brought back the whole working set during a session.
C18_Witness ==
  /\ lastEvent = "reset"
  /\ InProgress
  /\ filteredQuestions = allQuestions
  /\ Len(allQuestions) = SampleSize

\* C19: for every bank the sample has exactly min(bank size, K) elements,
\* all taken from the bank and none repeated.
C19_SampleSize ==
  /\ Len(shSample) = Min(Len(shArray), SampleSize)
  /\ \A i \in 1..Len(shSample) :
       \E b \in 1..Len(shArray) : shSample[i] = shArray[b]
  /\ \A i, j \in 1..Len(shSample) : i # j => shSample[i] # shSample[j]

\* Supports C19: the working set of the component, drawn at load and at
\* each restart(), has min(bank size, K) questions of the bank, none twice.
C19_WorkingSetSize ==
  /\ Len(allQuestions) = Min(Len(questions), SampleSize)
  /\ \A i \in 1..Len(allQuestions) :
       \E b \in 1..Len(questions) : allQuestions[i] = questions[b]
  /\ \A i, j \in 1..Len(allQuestions) :
       i # j => allQuestions[i].id # allQuestions[j].id

\* A bank of more than K questions, of which K were drawn and not the
\* first K in bank order.
C19_Witness ==
  /\ lastEvent = "shuffle"
  /\ Len(shArray) > SampleSize
  /\ Len(shSample) = SampleSize
  /\ shSample # Slice(shArray, 0, SampleSize)

\* p holds every element of the array a of distinct elements exactly once.
IsPermutation(p, a) ==
  /\ Len(p) = Len(a)
  /\ \A i \in 1..Len(a) : \E j \in 1..Len(p) : p[j] = a[i]

RECURSIVE Factorial(_)
Factorial(n) == IF n <= 1 THEN 1 ELSE n * Factorial(n - 1)

\* C20: for an array of n distinct elements every result of shuffleArray is
\* a permutation of the array, there are n! sequences of random choices and
\* they give n! different results: the choices map one-to-one onto the
\* permutations.
C20_ShuffleBijective ==
  LET n == Len(shArray)
      results == {shuffleArray(shArray, rnd) : rnd \in RandomChoices(n)}
  IN  /\ IsPermutation(shShuffled, shArray)
      /\ \A p \in results : IsPermutation(p, shArray)
      /\ Cardinality(RandomChoices(n)) = Factorial(n)
      /\ Cardinality(results) = Factorial(n)

\* Four elements shuffled into reverse order.
C20_Witness ==
  /\ lastEvent = "shuffle"
  /\ shArray = << 1, 2, 3, 4 >>
  /\ shShuffled = << 4, 3, 2, 1 >>

\* C21: the evaluation text is fixed by the percentage alone, and every
\* percentage of 0..100 falls in exactly one of five tiers whose lower
\* bounds are inclusive: 100; 85..99; 70..84; 50..69; below 50.  Fifteen
\* correct of twenty is 75 and falls in the 70..84 tier.
C21_EvaluationTiers ==
  /\ evText \in {"outstanding", "excellent", "good", "fair", "poor"}
  /\ (evText = "outstanding") <=> (evP = 100)
  /\ (evText = "excellent") <=> (85 <= evP /\ evP < 100)
  /\ (evText = "good") <=> (70 <= evP /\ evP < 85)
  /\ (evText = "fair") <=> (50 <= evP /\ evP < 70)
  /\ (evText = "poor") <=> (evP < 50)
  /\ Percentage(15, 20) = 75
  /\ getDetailedEvaluation(Percentage(15, 20)) = "good"

\* A percentage on the lower bound of a tier got the text of that tier.
C21_Witness ==
  /\ lastEvent = "evaluation"
  /\ evP = 85
  /\ evText = "excellent"

\* p is 100 * s / t rounded to the nearest integer, a half rounded up:
\* p - 1/2 <= 100 * s / t < p + 1/2.
IsRounded(p, s, t) ==
  /\ 2 * t * p <= 200 * s + t
  /\ 200 * s + t < 2 * t * (p + 1)

\* C22: in every reachable state the percentage is an integer of 0..100;
\* it is 0 when the total is 0, so nothing is divided by zero, and
\* otherwise 100 * score / total rounded to the nearest integer with a half
\* rounded up.  The same holds of the percentage of every score out of
\* every total up to MaxTotal.
C22_Percentage ==
  /\ percentage \in 0..100
  /\ total = 0 => percentage = 0
  /\ total > 0 => IsRounded(percentage, score, total)
  /\ \A t \in 1..MaxTotal :
       \A s \in 0..t :
         /\ Percentage(s, t) \in 0..100
         /\ IsRounded(Percentage(s, t), s, t)
  /\ \A s \in 0..MaxTotal : Percentage(s, 0) = 0

\* The timer ran out on an empty filtered set: Finished with total 0.
C22_Witness ==
  /\ Finished
  /\ lastEvent = "tick"
  /\ total = 0
  /\ percentage = 0

\* C23: whenever the Question view is rendered (started, not finished,
\* filtered set not empty) the current question is defined: currentIndex is
\* below the length of the filtered set.
C23_QuestionDefined ==
  View = "Question" =>
    /\ HasCurrentQuestion
    /\ \E i \in 1..Len(allQuestions) : currentQuestion = allQuestions[i]

\* A category change left a shorter filtered set, and the Question view
\* shows its first question.
C23_Witness ==
  /\ lastEvent = "category"
  /\ View = "Question"
  /\ Len(filteredQuestions) = 1
  /\ Len(allQuestions) > 1
  /\ currentIndex = 0
  /\ currentQuestion = filteredQuestions[1]

\* C24: whenever submitted is true in a started session with a defined
\* current question, answers is not empty and its last entry is the answer
\* to the current question with the selected option.
C24_FeedbackDescribesQuestion ==
  (isStarted /\ isSubmitted /\ HasCurrentQuestion) =>
    /\ Len(answers) > 0
    /\ Last(answers).questionId = currentQuestion.id
    /\ Last(answers).selectedOptionId = selectedOptionId

\* C25: when next() on the last question finishes the session, every
\* question of the filtered set has been answered exactly once: answers is
\* as long as the filtered set and holds its question ids in order.
C25_FinishedAllAnswered ==
  [][ (lastEvent' = "next" /\ ~isFinished /\ isFinished') =>
        /\ Len(answers') = Len(filteredQuestions')
        /\ \A i \in 1..Len(answers') :
             answers'[i].questionId = filteredQuestions'[i].id ]_vars

\* C26: the remaining time is always null or an integer from 0 to the timer
\* duration of the session; it is null throughout Home and throughout a
\* session started with no timer, whatever sessions came before; and a
\* session without a timer becomes Finished by next() only, never by the
\* timer.
C26_RemainingInRange ==
  /\ [](\/ timeRemaining = Null
        \/ /\ timerDuration # Null
           /\ 0 <= timeRemaining
           /\ timeRemaining <= timerDuration)
  /\ [](Home => timeRemaining = Null)
  /\ []((isStarted /\ timerDuration = Null) => timeRemaining = Null)
  /\ [][ (timerDuration = Null /\ ~isFinished /\ isFinished') =>
           lastEvent' = "next" ]_vars

\* A session without a timer, finished by next() with no remaining time.
C26_Witness ==
  /\ lastEvent = "next"
  /\ Finished
  /\ timerDuration = Null
  /\ timeRemaining = Null

\* C27: restart() leaves the difficulty filter, the category filter and the
\* timer duration as they were in the finished session, so the filtered set
\* in Home is the new working set filtered by the old filters.
C27_RestartKeepsConfiguration ==
  [][ lastEvent' = "restart" =>
        /\ filterDifficulty' = filterDifficulty
        /\ filterCategory' = filterCategory
        /\ timerDuration' = timerDuration
        /\ filteredQuestions' =
             Filter(allQuestions', filterDifficulty, filterCategory) ]_vars

\* After a restart Home keeps a category filter, a difficulty filter and a
\* timer, and the new working set has no question for the filters.
C27_Witness ==
  /\ lastEvent = "restart"
  /\ Home
  /\ filterCategory # All
  /\ filterDifficulty # All
  /\ timerDuration # Null
  /\ Len(filteredQuestions) = 0

====
